---- MODULE Spec2Model ----
(***************************************************************************)
(* Pagination engine of springboard-pagination-tool.                       *)
(*                                                                         *)
(* Three generations of the module are in the repository and are modelled  *)
(* side by side, selected by the variable impl:                            *)
(*   "index"   src/index.js lines 1-198   (getRawPage, awaited consumers,   *)
(*             cursor API)                                                 *)
(*   "part000" src/unnamed/part_000       (retry inlined, consumers called  *)
(*             without await)                                              *)
(*   "legacy"  src/index.js lines 200-290 (iteratePaginatedList /           *)
(*             getPaginatedList: no retry, no await)                        *)
(* Under "legacy" the entry points iterate and getAll stand for            *)
(* iteratePaginatedList and getPaginatedList.                              *)
(*                                                                         *)
(* One call of one entry point is followed from its invocation to its      *)
(* completion or failure.  The remote collection is a list of `total`      *)
(* records, numbered 1..total, served PerPage records to the page.         *)
(***************************************************************************)
EXTENDS Integers, Sequences, FiniteSets, TLC

\* ------------------------------------------------------------------ bounds
MaxTotal == 5
PerPage == 2
MaxChanges == 1
MaxAttempts == 8
MaxPending == 1
MaxCursorPage == 3
MaxFetches == 2

\* ------------------------------------------------------- program constants
Retries == 5

Impls == {"index", "part000", "legacy"}
SubDomains == {"storeA", "storeB"}
Paths == {"items", "purchasing/vendors"}
\* values of the `error` field of a decoded response: absent, empty, a message
ErrorFields == {"undefined", "", "boom"}

VARIABLES
    impl,           \* which generation of the module is loaded
    op,             \* the entry point that was called
    sb,             \* springboard.subDomain
    path,           \* the collection path
    cursorArg,      \* the caller's cursor object handed to getPage (<<>> when none)
    fedFrom,        \* where that cursor came from: "caller", "next", "again"
    pc,             \* "idle", "fetching", "callback", "done", "failed"
    page,           \* iteratePages: let page
    pages,          \* iteratePages: let pages
    data,           \* the decoded response last received (<<>> when none)
    attempts,       \* requests issued so far by the fetch in progress (or failed)
    elems,          \* data.results handed to the page consumer
    idx,            \* position of the element the record consumer handles
    isCancelled,    \* iteratePages: flag set by cancel
    innerCancelled, \* iterate: flag set by innerCancel (legacy: by cancel)
    suspended,      \* the awaited consumer callback has suspended
    compilation,    \* getAll: the array being filled
    returned,       \* getAll: the resolved value (<<>> while unresolved)
    pageData,       \* getPage: the resolved value (<<>> while unresolved)
    err,            \* the rejection reason (<<>> when none)
    total,          \* server: number of records in the collection
    changes,        \* server: changes of the collection during the call
    fetchStarted,   \* page numbers whose fetch was started, in order
    fetched,        \* successful fetches: [page, pages] in order
    delivered,      \* records handed to the record consumer, in order
    pagesDelivered, \* pages handed to the page consumer, in order
    consumerArgs,   \* arguments of the last page consumer call (<<>> when none)
    recovered,      \* getRawPage: failed requests before the call's last fetch that
                    \* succeeded on a retry
    pending,        \* callbacks still running that nobody awaits
    firstCancel,    \* the first call of a cancel function (<<>> when none)
    pullPc,         \* cursor-driven caller: "idle", "fetching", "done"
    pullCursor,     \* cursor-driven caller: the cursor of its getPage call in flight
    pullReqs,       \* cursor-driven caller: page numbers it requested, in order
    pulled,         \* cursor-driven caller: the elements it got, concatenated
    callB           \* a second iteration running beside the first: its locals

callv == <<op, sb, path, cursorArg, fedFrom>>
srv == <<total, changes>>
loopv == <<page, pc, attempts, fetchStarted, returned>>
fetchv == <<pages, data, fetched, pageData, err>>
cbv == <<elems, idx, isCancelled, innerCancelled, suspended, delivered,
         pagesDelivered, compilation>>
argv == <<consumerArgs>>
histv == <<recovered>>
bgv == <<pending, firstCancel>>
pullv == <<pullPc, pullCursor, pullReqs, pulled>>
twov == <<callB>>
otherv == <<pullv, twov>>
vars == <<impl, callv, srv, loopv, fetchv, cbv, argv, histv, bgv, otherv>>

IterOps == {"iteratePages", "iterate", "getAll"}

\* ------------------------------------------------------------------ server
Min(a, b) == IF a < b THEN a ELSE b

\* total page count the server reports for a collection of t records
PagesOf(t) == (t + PerPage - 1) \div PerPage

\* the records on page p of a collection of t records
PageRecords(t, p) ==
    LET first == (p - 1) * PerPage + 1
        last == Min(p * PerPage, t)
    IN  IF last < first THEN <<>> ELSE [i \in 1..(last - first + 1) |-> first + i - 1]

\* the page a record belongs to
PageOfRecord(r) == ((r - 1) \div PerPage) + 1

\* the decoded JSON body for a request of page p
Response(t, p, e) == [error |-> e, pages |-> PagesOf(t), results |-> PageRecords(t, p)]

\* --------------------------------------------------------- pure code pieces
\* JavaScript truthiness of the error field
Truthy(v) == v \notin {"undefined", ""}

\* faulty variants of the error check: the field's presence instead of its
\* truthiness, and no check at all
HasErrorField(d) == d.error # "undefined"
HasErrorNever(d) == FALSE

\* if (data.error) throw new Error(data.error)
HasError(d) == Truthy(d.error)

\* p-retry: after a failed attempt number n, retry while n <= retries
RetriesOf(i) == IF i = "legacy" THEN 0 ELSE Retries
\* faulty variant: a failed request is never repeated
ShouldRetryNever(i, n) == FALSE
\* faulty variant: one retry more
ShouldRetryOneMore(i, n) == n <= RetriesOf(i) + 1
ShouldRetry(i, n) == n <= RetriesOf(i)

\* faulty variant: the loop also runs when page equals pages
LoopCondInclusive(p, ps) == p <= ps

\* while (page < pages)
LoopCond(p, ps) == p < ps

\* faulty variant: the bound never shrinks
UpdatePagesMax(old, d) == IF d.pages > old THEN d.pages ELSE old

\* faulty variant: the bound moves away with every fetch
UpdatePagesGrow(old, d) == old + 1

\* pages = data['pages']
UpdatePages(old, d) == d.pages

\* the newest generation fetches through getRawPage
GetRawPage(i) == i = "index"

\* consumers are awaited only by the newest generation
AwaitsConsumer(i) == i = "index"

\* faulty variant: the element loop ignores the flag
StopsAfterRecordNever(inner) == FALSE

\* if (isCancelled) { cancel(); break; }     (legacy: if (isCancelled) return)
StopsAfterRecord(inner) == inner

\* faulty variant: unshift instead of push
PushFront(c, e) == <<e>> \o c

\* compilation.push(element)
Push(c, e) == Append(c, e)

\* faulty variant: the check is missing
CursorMatchesAlways(c, s) == TRUE

\* if (cursor.subDomain !== springboard.subDomain) throw
CursorMatches(c, s) == c.subDomain = s

\* faulty variant: <= for <
HasNextInclusive(c, d) == c.page <= d.pages
\* faulty variant: no page gets a next cursor
HasNextNever(c, d) == FALSE

\* if (cursor.page < rawPageData['pages'])
HasNext(c, d) == c.page < d.pages

\* faulty variant: the page is advanced twice
NextCursorSkip(c) == [c EXCEPT !.page = @ + 2]

\* faulty variant: pageData.next = cursor, the same object
AssignSame(c) == [alias |-> TRUE, value |-> c]

\* Object.assign({}, cursor): a new object holding the cursor's fields
AssignCopy(c) == [alias |-> FALSE, value |-> c]

\* Object.assign({}, cursor); next.page++
NextCursor(c) == [AssignCopy(c).value EXCEPT !.page = @ + 1]

\* the caller's cursor object once getPage has built its result: the
\* increment reaches it only through an alias
CursorAfter(c, d) == IF HasNext(c, d) /\ AssignCopy(c).alias THEN NextCursor(c) ELSE c

\* getPage: the PageData built from the raw page
MakePageData(c, d) ==
    [next |-> IF HasNext(c, d) THEN <<NextCursor(c)>> ELSE <<>>,
     elements |-> d.results]

\* the argument list iteratePages hands to the page consumer for page p:
\* index.js    consumer(data.results, cancel)
\* part_000    consumer(data.results, cursor, cancel), cursor = { page, springboard, path }
PageConsumerArgs(i, p, s, pth) ==
    IF i = "index"
    THEN [kinds |-> <<"elements", "cancel">>, cursor |-> <<>>]
    ELSE [kinds |-> <<"elements", "cursor", "cancel">>,
          cursor |-> <<[page |-> p, springboard |-> s, path |-> pth]>>]

\* number of consumer invocations so far
Invoked == IF op = "iteratePages" THEN Len(pagesDelivered) ELSE Len(delivered)

\* the locals of a call that has not been made
IdleCall ==
    [op |-> "none", sb |-> "storeA", path |-> "items", total |-> 0,
     pc |-> "idle", page |-> 0, pages |-> 1, elems |-> <<>>, idx |-> 0,
     isCancelled |-> FALSE, innerCancelled |-> FALSE,
     reqs |-> <<>>, units |-> <<>>, cancelAt |-> 0]

\* faulty variant: one isCancelled for the module, the first call's
FlagCellShared(c) == "A"

\* let isCancelled = false: a binding of the invocation that runs the block
FlagCell(c) == c

\* ------------------------------------------------------------------- Init
Init ==
    /\ impl \in Impls
    /\ op = "none" /\ sb = "storeA" /\ path = "items" /\ cursorArg = <<>>
    /\ fedFrom = "none"
    /\ pc = "idle" /\ page = 0 /\ pages = 1 /\ data = <<>> /\ attempts = 0
    /\ elems = <<>> /\ idx = 0 /\ isCancelled = FALSE /\ innerCancelled = FALSE
    /\ suspended = FALSE /\ compilation = <<>> /\ returned = <<>>
    /\ pageData = <<>> /\ err = <<>>
    /\ total \in 0..MaxTotal /\ changes = 0
    /\ fetchStarted = <<>> /\ fetched = <<>> /\ delivered = <<>>
    /\ pagesDelivered = <<>> /\ pending = {} /\ firstCancel = <<>>
    /\ consumerArgs = <<>> /\ recovered = 0
    /\ pullPc = "idle" /\ pullCursor = <<>> /\ pullReqs = <<>> /\ pulled = <<>>
    /\ callB = IdleCall

\* faulty variant: the page counter advances by two
EnterLoopSkip(o, p, ps, comp) ==
    IF LoopCond(p, ps)
    THEN /\ page' = p + 2
         /\ pc' = "fetching"
         /\ attempts' = 1
         /\ fetchStarted' = Append(fetchStarted, p + 2)
         /\ returned' = returned
    ELSE /\ page' = p
         /\ pc' = "done"
         /\ attempts' = 0
         /\ returned' = IF o = "getAll" THEN <<comp>> ELSE returned
         /\ UNCHANGED fetchStarted

\* --------------------------------------------------------- loop of iteratePages
\* the loop test and, when it passes, the start of the fetch of the next page;
\* o is the entry point, p and ps the counters, comp getAll's array
EnterLoop(o, p, ps, comp) ==
    IF LoopCond(p, ps)
    THEN /\ page' = p + 1
         /\ pc' = "fetching"
         /\ attempts' = 1
         /\ fetchStarted' = Append(fetchStarted, p + 1)
         /\ returned' = returned
    ELSE /\ page' = p
         /\ pc' = "done"
         /\ attempts' = 0
         /\ returned' = IF o = "getAll" THEN <<comp>> ELSE returned
         /\ UNCHANGED fetchStarted

\* faulty variant: the flag is ignored and the loop goes on
ReturnCancelledIgnored == EnterLoop(op, page, pages, compilation)

\* if (isCancelled) return
ReturnCancelled ==
    /\ pc' = "done"
    /\ returned' = IF op = "getAll" THEN <<compilation>> ELSE returned
    /\ attempts' = 0
    /\ UNCHANGED <<page, fetchStarted>>

\* ------------------------------------------------------------ entry points
CallIteration(o, s, p) ==
    /\ pc = "idle"
    /\ op' = o /\ sb' = s /\ path' = p /\ cursorArg' = <<>>
    /\ fedFrom' = fedFrom
    /\ pages' = 1
    /\ EnterLoop(o, 0, 1, <<>>)
    /\ UNCHANGED <<impl, otherv, srv, data, fetched, pageData, err, cbv, argv, histv, bgv>>

iteratePages ==
    /\ impl \in {"index", "part000"}
    /\ \E s \in SubDomains, p \in Paths : CallIteration("iteratePages", s, p)

iterate == \E s \in SubDomains, p \in Paths : CallIteration("iterate", s, p)

getAll == \E s \in SubDomains, p \in Paths : CallIteration("getAll", s, p)

getPage(s, c) ==
    /\ op' = "getPage" /\ sb' = s /\ path' = c.path /\ cursorArg' = <<c>>
    /\ IF CursorMatches(c, s)
       THEN /\ pc' = "fetching"
            /\ attempts' = 1
               /\ fetchStarted' = Append(fetchStarted, c.page)
            /\ err' = <<>>
       ELSE /\ pc' = "failed"
            /\ err' = <<[kind |-> "mismatch", message |-> "cursor"]>>
            /\ UNCHANGED <<attempts, fetchStarted>>
    /\ recovered' = 0
    /\ data' = <<>>
    /\ UNCHANGED <<impl, otherv, srv, page, returned, pages, fetched, pageData,
                   cbv, argv, bgv>>

\* a caller hands getPage a cursor of its own making
CallGetPage ==
    /\ pc = "idle"
    /\ impl = "index"
    /\ \E s \in SubDomains, d \in SubDomains, p \in Paths, n \in 1..MaxCursorPage :
          getPage(s, [page |-> n, subDomain |-> d, path |-> p])
    /\ fedFrom' = "caller"

getFirstPage ==
    /\ pc = "idle"
    /\ impl = "index"
    /\ \E s \in SubDomains, p \in Paths :
          getPage(s, [page |-> 1, subDomain |-> s, path |-> p])
    /\ fedFrom' = "caller"

\* the caller feeds the next cursor of the page it just got back into getPage
getPageNext ==
    /\ pc = "done"
    /\ op = "getPage"
    /\ pageData # <<>>
    /\ pageData[1].next # <<>>
    /\ getPage(sb, pageData[1].next[1])
    /\ fedFrom' = "next"

\* the caller hands getPage the cursor object it used for its last call
getPageAgain ==
    /\ pc = "done"
    /\ op = "getPage"
    /\ Len(fetchStarted) < MaxFetches
    /\ getPage(sb, cursorArg[1])
    /\ fedFrom' = "again"

\* ------------------------------------------------------------ page fetcher
\* the record consumer is invoked on element number i of the page
InvokeRecord(es, i) ==
    /\ pc' = "callback"
    /\ elems' = es
    /\ idx' = i
    /\ innerCancelled' = FALSE
    /\ isCancelled' = FALSE
    /\ suspended' = FALSE
    /\ delivered' = Append(delivered, es[i])
    /\ compilation' = IF op = "getAll" THEN Push(compilation, es[i]) ELSE compilation
    /\ attempts' = 0
    /\ UNCHANGED <<page, fetchStarted, returned, pagesDelivered>>

\* a request fails at the transport level (connection error, non-JSON body)
FetchFails ==
    /\ pc = "fetching"
    /\ attempts < MaxAttempts
    /\ IF ShouldRetry(impl, attempts)
       THEN /\ attempts' = attempts + 1
               /\ UNCHANGED <<pc, err>>
       ELSE /\ pc' = "failed"
            /\ err' = <<[kind |-> "transport", message |-> "network"]>>
            /\ UNCHANGED attempts
    /\ UNCHANGED <<impl, otherv, callv, srv, page, fetchStarted, returned, pages, data,
                   fetched, pageData, cbv, argv, histv, bgv>>

\* the request is answered with a body whose error field is e, and
\* if (data.error) throw new Error(data.error) fires
FetchRespondsError(e) ==
    /\ pc = "fetching"
    /\ LET d == Response(total, fetchStarted[Len(fetchStarted)], e)
       IN  /\ HasError(d)
           /\ data' = <<d>>
           /\ pc' = "failed"
           /\ err' = <<[kind |-> "remote", message |-> d.error]>>
    /\ UNCHANGED <<impl, otherv, callv, srv, page, attempts, fetchStarted,
                   returned, pages, fetched, pageData, cbv, argv, histv, bgv>>

\* the request of an iteration is answered with a page
FetchRespondsPage(e) ==
    /\ pc = "fetching"
    /\ op \in IterOps
    /\ LET d == Response(total, page, e)
       IN  /\ ~HasError(d)
           /\ data' = <<d>>
           /\ pages' = UpdatePages(pages, d)
           /\ fetched' = Append(fetched, [page |-> page, pages |-> d.pages])
           /\ recovered' = IF GetRawPage(impl) /\ attempts > 1 THEN attempts - 1 ELSE recovered
           /\ consumerArgs' = IF impl = "legacy" THEN consumerArgs
                              ELSE <<PageConsumerArgs(impl, page, sb, path)>>
           /\ IF op = "iteratePages"
              THEN /\ pc' = "callback"
                   /\ elems' = d.results
                   /\ isCancelled' = FALSE
                   /\ suspended' = FALSE
                   /\ pagesDelivered' = Append(pagesDelivered, page)
                   /\ attempts' = 0
                   /\ UNCHANGED <<page, fetchStarted, returned,
                                  idx, innerCancelled, delivered, compilation>>
              ELSE IF d.results = <<>>
                   THEN /\ EnterLoop(op, page, UpdatePages(pages, d), compilation)
                        /\ elems' = d.results
                        /\ UNCHANGED <<idx, isCancelled, innerCancelled, suspended,
                                       delivered, pagesDelivered, compilation>>
                   ELSE InvokeRecord(d.results, 1)
    /\ UNCHANGED <<impl, otherv, callv, srv, pageData, err, bgv>>

\* the request of getPage is answered with a page
GetPageResponds(e) ==
    /\ pc = "fetching"
    /\ op = "getPage"
    /\ LET d == Response(total, cursorArg[1].page, e)
       IN  /\ ~HasError(d)
           /\ data' = <<d>>
           /\ fetched' = Append(fetched, [page |-> cursorArg[1].page, pages |-> d.pages])
           /\ pageData' = <<MakePageData(cursorArg[1], d)>>
           /\ cursorArg' = <<CursorAfter(cursorArg[1], d)>>
           /\ recovered' = IF GetRawPage(impl) /\ attempts > 1 THEN attempts - 1 ELSE recovered
           /\ pc' = "done"
           /\ attempts' = 0
    /\ UNCHANGED <<impl, otherv, op, sb, path, fedFrom, srv, page, fetchStarted,
                   returned, pages, err, cbv, argv, bgv>>

\* ------------------------------------------------------ consumer callbacks
\* control comes back from the consumer callback to the iterator
Continue ==
    IF op = "iteratePages"
    THEN /\ IF isCancelled
            THEN ReturnCancelled
            ELSE EnterLoop(op, page, pages, compilation)
         /\ suspended' = FALSE
         /\ UNCHANGED <<elems, idx, isCancelled, innerCancelled, delivered,
                        pagesDelivered, compilation>>
    ELSE IF StopsAfterRecord(innerCancelled)
         THEN /\ ReturnCancelled
              /\ isCancelled' = (impl # "legacy")
              /\ suspended' = FALSE
              /\ UNCHANGED <<elems, idx, innerCancelled, delivered,
                             pagesDelivered, compilation>>
         ELSE IF idx < Len(elems)
              THEN InvokeRecord(elems, idx + 1)
              ELSE /\ EnterLoop(op, page, pages, compilation)
                   /\ suspended' = FALSE
                   /\ UNCHANGED <<elems, idx, isCancelled, innerCancelled,
                                  delivered, pagesDelivered, compilation>>

\* the running callback calls the cancel function it was given
ConsumerCancels ==
    /\ pc = "callback"
    /\ op \in {"iteratePages", "iterate"}
    /\ IF op = "iteratePages"
       THEN /\ ~isCancelled
            /\ isCancelled' = TRUE
            /\ UNCHANGED innerCancelled
       ELSE /\ ~innerCancelled
            /\ innerCancelled' = TRUE
            /\ UNCHANGED isCancelled
    /\ firstCancel' =
          IF firstCancel = <<>>
          THEN <<[unit |-> Invoked, invoked |-> Invoked,
                  fetches |-> Len(fetchStarted),
                  afterSuspend |-> suspended, live |-> TRUE]>>
          ELSE firstCancel
    /\ UNCHANGED <<impl, otherv, callv, srv, loopv, fetchv, elems, idx, suspended,
                   delivered, pagesDelivered, compilation, argv, histv, pending>>

\* the running callback suspends (it is an async function reaching an await);
\* an awaiting iterator keeps waiting, the others get a promise they ignore
ConsumerSuspends ==
    /\ pc = "callback"
    /\ op \in {"iteratePages", "iterate"}
    /\ ~suspended
    /\ IF AwaitsConsumer(impl)
       THEN /\ suspended' = TRUE
            /\ UNCHANGED <<loopv, elems, idx, isCancelled, innerCancelled,
                           delivered, pagesDelivered, compilation, pending>>
       ELSE /\ Cardinality(pending) < MaxPending
            /\ pending' = pending \cup {Invoked}
            /\ Continue
    /\ UNCHANGED <<impl, otherv, callv, srv, fetchv, argv, histv, firstCancel>>

\* the running callback completes
ConsumerReturns ==
    /\ pc = "callback"
    /\ Continue
    /\ UNCHANGED <<impl, otherv, callv, srv, fetchv, argv, histv, bgv>>

\* a callback nobody awaits calls its cancel function
PendingCancels(u) ==
    /\ u \in pending
    /\ firstCancel = <<>>
    /\ firstCancel' = <<[unit |-> u, invoked |-> Invoked,
                         fetches |-> Len(fetchStarted),
                         afterSuspend |-> TRUE, live |-> FALSE]>>
    /\ UNCHANGED <<impl, otherv, callv, srv, loopv, fetchv, cbv, argv, histv, pending>>

\* a callback nobody awaits completes
PendingCompletes(u) ==
    /\ u \in pending
    /\ pending' = pending \ {u}
    /\ UNCHANGED <<impl, otherv, callv, srv, loopv, fetchv, cbv, argv, histv, firstCancel>>

\* ------------------------------------------------------------------ server
\* the remote collection grows or shrinks while the call is running; the
\* program sees the collection only when a request is answered, so the
\* change is taken while a request is in flight
CollectionChanges(t) ==
    /\ pc = "fetching"
    /\ changes < MaxChanges
    /\ t # total
    /\ total' = t
    /\ changes' = changes + 1
    /\ UNCHANGED <<impl, otherv, callv, loopv, fetchv, cbv, argv, histv, bgv>>

Next ==
    \/ iteratePages
    \/ iterate
    \/ getAll
    \/ CallGetPage
    \/ getFirstPage
    \/ getPageNext
    \/ getPageAgain
    \/ FetchFails
    \/ \E e \in ErrorFields : FetchRespondsError(e)
    \/ \E e \in ErrorFields : FetchRespondsPage(e)
    \/ \E e \in ErrorFields : GetPageResponds(e)
    \/ ConsumerCancels
    \/ ConsumerSuspends
    \/ ConsumerReturns
    \/ \E u \in pending : PendingCancels(u)
    \/ \E u \in pending : PendingCompletes(u)
    \/ \E t \in 0..MaxTotal : CollectionChanges(t)

Spec == Init /\ [][Next]_vars

\* ======================================================== claims C1 - C10
Cancelled == isCancelled \/ innerCancelled

RECURSIVE ConcatPages(_, _)
\* the records of pages 1..p of a collection of t records, in page order
ConcatPages(t, p) == IF p <= 0 THEN <<>> ELSE ConcatPages(t, p - 1) \o PageRecords(t, p)

\* C1: when the record callback of iterate (or of the legacy
\* iteratePaginatedList) first calls cancel while it handles the k-th record,
\* exactly k records are ever delivered, no fetch is started afterwards, and
\* the iteration ends without an error.
CancelPrecise ==
    (op = "iterate" /\ firstCancel # <<>> /\ firstCancel[1].live) =>
        /\ Len(delivered) = firstCancel[1].unit
        /\ Len(fetchStarted) = firstCancel[1].fetches
        /\ pc \in {"callback", "done"}
        /\ err = <<>>

CancelPreciseWitness ==
    /\ op = "iterate" /\ pc = "done"
    /\ firstCancel # <<>> /\ firstCancel[1].live /\ firstCancel[1].unit = 3
    /\ Len(delivered) = 3 /\ Len(elems) = 2 /\ idx = 1
    /\ pages = 3 /\ page = 2

\* C2: with an unchanged collection and no failed fetch, getAll (and the
\* legacy getPaginatedList) returns the records of pages 1..P concatenated in
\* page order, each once, so as many as the collection holds.
Exhaustive ==
    (op = "getAll" /\ pc = "done" /\ changes = 0) =>
        /\ returned = <<ConcatPages(total, PagesOf(total))>>
        /\ Len(returned[1]) = total
        /\ \A i, j \in 1..Len(returned[1]) : i < j => returned[1][i] < returned[1][j]

ExhaustiveWitness ==
    /\ op = "getAll" /\ pc = "done" /\ changes = 0
    /\ total = 5 /\ returned = <<(<<1, 2, 3, 4, 5>>)>> /\ Len(fetched) = 3

\* C3: within one iteration a page fetch is never in flight while a consumer
\* callback is still in progress.
Sequential == ~(pc = "fetching" /\ pending # {})

\* C4: a consumer that suspends and then calls cancel before it completes is
\* honoured: no page is fetched and nothing is delivered after that call.
AsyncCancelHonoured ==
    (firstCancel # <<>> /\ firstCancel[1].afterSuspend) =>
        /\ Len(fetchStarted) = firstCancel[1].fetches
        /\ Invoked = firstCancel[1].invoked

\* C5: page p + 1 is fetched exactly when p is below the total reported by
\* the fetch of page p alone; an iteration whose first page reports more than
\* two pages and whose second reports one page ends after page 2.
DynamicBound ==
    op \in IterOps =>
        /\ \A i \in 1..Len(fetched) : fetched[i].page = i
        /\ \A i \in 2..Len(fetchStarted) :
              /\ fetchStarted[i] = i
              /\ i - 1 < fetched[i - 1].pages
        /\ (pc = "done" /\ ~Cancelled) =>
              /\ Len(fetched) = page
              /\ page >= fetched[Len(fetched)].pages
        /\ (Len(fetched) >= 2 /\ fetched[1].pages > 2 /\ fetched[2].pages = 1) =>
              Len(fetchStarted) = 2

DynamicBoundWitness ==
    /\ op \in IterOps /\ pc = "done" /\ ~Cancelled
    /\ Len(fetched) = 2 /\ fetched[1].pages = 3 /\ fetched[2].pages = 1

\* C6: getPage with a cursor of another subDomain fails with the mismatch
\* error before any request is issued; a cursor of the tenant's own subDomain
\* is never rejected by that check.
MismatchRejected ==
    op = "getPage" =>
        IF cursorArg[1].subDomain # sb
        THEN /\ pc = "failed"
             /\ err = <<[kind |-> "mismatch", message |-> "cursor"]>>
             /\ fetchStarted = <<>> /\ attempts = 0 /\ data = <<>>
        ELSE err = <<>> \/ err[1].kind # "mismatch"

MismatchRejectedWitness ==
    /\ op = "getPage" /\ cursorArg[1].subDomain # sb /\ pc = "failed"

\* C7: a successful getPage returns the fetched page's records, and a next
\* cursor exactly when cursor.page is below the reported total; the next
\* cursor is the input cursor with page + 1.
NextCursorComputed ==
    (op = "getPage" /\ pc = "done") =>
        LET c == cursorArg[1]
            d == data[1]
            r == pageData[1]
        IN  /\ (r.next # <<>>) <=> (c.page < d.pages)
            /\ r.next # <<>> =>
                  r.next[1] = [page |-> c.page + 1, subDomain |-> c.subDomain,
                               path |-> c.path]
            /\ r.elements = d.results
            /\ r.elements = PageRecords(total, c.page)

NextCursorComputedWitness ==
    /\ op = "getPage" /\ pc = "done"
    /\ cursorArg[1].page = 2 /\ data[1].pages = 3
    /\ pageData[1].next # <<>> /\ pageData[1].next[1].page = 3

\* C8 as written: one page fetch issues at most 5 requests.
RetryBoundFive == attempts <= 5

\* C8 amended: one page fetch issues at most 1 + 5 requests; when all fail
\* the fetch fails with the transport failure after the sixth and nothing is
\* requested again.
RetryBoundSix ==
    /\ [](/\ attempts <= 6
          /\ (pc = "failed" /\ err[1].kind = "transport" /\ impl # "legacy") =>
                attempts = 6)
    /\ [][pc = "failed" => UNCHANGED <<pc, err, attempts, fetchStarted>>]_vars

RetryBoundSixWitness ==
    /\ pc = "failed" /\ err[1].kind = "transport" /\ attempts = 6
    /\ op \in IterOps /\ page = 2

\* C9 as written: a response with an error field fails the fetch with that
\* message after exactly one request for the page.
SemanticErrorOnce ==
    (data # <<>> /\ Truthy(data[1].error)) =>
        /\ pc = "failed"
        /\ err = <<[kind |-> "remote", message |-> data[1].error]>>
        /\ attempts = 1

\* C9 amended: a response with a non-empty error field fails the fetch at
\* once with that message, no request follows it for that page, and no
\* callback is invoked for the page; transport failures before it were
\* retried, and an empty error field is not an error.
SemanticErrorNotRetried ==
    /\ []((data # <<>> /\ Truthy(data[1].error)) =>
            /\ pc = "failed"
            /\ err = <<[kind |-> "remote", message |-> data[1].error]>>
            /\ op \in IterOps =>
                  /\ \A i \in 1..Len(pagesDelivered) : pagesDelivered[i] # page
                  /\ \A i \in 1..Len(delivered) : PageOfRecord(delivered[i]) # page)
    /\ []((err # <<>> /\ err[1].kind = "remote") => Truthy(err[1].message))
    /\ [][(data' # <<>> /\ Truthy(data'[1].error)) =>
             /\ attempts' = attempts
             /\ fetchStarted' = fetchStarted]_vars

SemanticErrorNotRetriedWitness ==
    /\ pc = "failed" /\ err = <<[kind |-> "remote", message |-> "boom"]>>
    /\ attempts = 3 /\ op \in IterOps /\ page = 2

\* C10: a failed fetch of page p ends iteratePages, iterate and getAll in an
\* error; page p and later pages reach no callback, nothing more is fetched,
\* getAll resolves to nothing, and what was delivered before stays delivered.
FetchFailureAborts ==
    /\ []((op \in IterOps /\ data # <<>> /\ Truthy(data[1].error)) => pc = "failed")
    /\ []((op \in IterOps /\ pc = "failed") =>
            /\ err # <<>>
            /\ returned = <<>>
            /\ fetchStarted[Len(fetchStarted)] = page
            /\ Len(fetched) = page - 1
            /\ \A i \in 1..Len(pagesDelivered) : pagesDelivered[i] < page
            /\ \A i \in 1..Len(delivered) : PageOfRecord(delivered[i]) < page)
    /\ [][(op \in IterOps /\ pc = "failed") =>
             UNCHANGED <<pc, err, page, attempts, fetchStarted, fetched, delivered,
                         pagesDelivered, compilation, returned>>]_vars

FetchFailureAbortsWitness ==
    /\ op = "getAll" /\ pc = "failed" /\ page = 2
    /\ compilation = <<1, 2>> /\ delivered = <<1, 2>> /\ returned = <<>>

\* ======================================================= claims C11 - C20
\* C11: every call of the page consumer by iteratePages passes the fetched
\* page's records, a cursor naming that page and the iteration's path, and
\* the cancel function, in that order.
PageCallbackArgs ==
    consumerArgs # <<>> =>
        /\ consumerArgs[1].kinds = <<"elements", "cursor", "cancel">>
        /\ consumerArgs[1].cursor # <<>>
        /\ consumerArgs[1].cursor[1].page = fetched[Len(fetched)].page
        /\ consumerArgs[1].cursor[1].path = path
        /\ pc = "callback" => elems = data[1].results

\* C13: on an unchanged collection of two or more pages getFirstPage returns
\* page 1 with a next cursor, and getPage on the next cursor returned for
\* page p returns the elements a direct fetch of page p + 1 of that path gives.
CursorRoundTrip ==
    (op = "getPage" /\ pc = "done" /\ changes = 0) =>
        LET n == Len(fetchStarted)
            c == cursorArg[1]
            r == pageData[1]
        IN  /\ (n = 1 /\ c.page = 1 /\ PagesOf(total) >= 2) =>
                  /\ r.elements = Response(total, 1, "undefined").results
                  /\ r.next # <<>>
                  /\ r.next[1].page = 2
            /\ (n >= 2 /\ fedFrom = "next") =>
                  /\ c.page = fetchStarted[n - 1] + 1
                  /\ c.path = path /\ c.subDomain = sb
                  /\ r.elements = Response(total, fetchStarted[n - 1] + 1, "undefined").results

CursorRoundTripWitness ==
    /\ op = "getPage" /\ pc = "done" /\ changes = 0
    /\ fetchStarted = <<1, 2>> /\ total = 5 /\ fedFrom = "next"
    /\ pageData[1].elements = <<3, 4>>

\* the page number of the request in flight
Requested == fetchStarted[Len(fetchStarted)]

\* C14: a page fetch that fails at the transport level n times, n within the
\* retries, and then succeeds returns that page and surfaces no error; the
\* enclosing iteration hands the page's records on once and goes on as it
\* does without a failure.
RetryThenSucceed ==
    /\ [][(pc = "fetching" /\ impl # "legacy" /\ attempts <= Retries
             /\ fetched' = fetched /\ data' = data
             /\ (pc' # pc \/ attempts' # attempts))
          => (pc' = "fetching" /\ err' = <<>> /\ attempts' = attempts + 1)]_vars
    /\ [][(pc = "fetching" /\ attempts > 1 /\ fetched' # fetched) =>
            /\ GetRawPage(impl) => recovered' = attempts - 1
            /\ attempts - 1 <= Retries
            /\ err' = <<>> /\ pc' # "failed"
            /\ data'[1].results = PageRecords(total, Requested)
            /\ op = "getPage" => pageData'[1].elements = data'[1].results
            /\ op = "iteratePages" =>
                  /\ elems' = data'[1].results
                  /\ pagesDelivered' = Append(pagesDelivered, Requested)
            /\ (op \in {"iterate", "getAll"} /\ data'[1].results # <<>>) =>
                  delivered' = Append(delivered, data'[1].results[1])]_vars
    /\ []((recovered > 0 /\ op \in {"iterate", "getAll"} /\ changes = 0) =>
            /\ delivered = SubSeq(ConcatPages(total, PagesOf(total)), 1, Len(delivered))
            /\ (pc = "done" /\ firstCancel = <<>>) =>
                  /\ Len(delivered) = total
                  /\ Len(fetched) = IF PagesOf(total) = 0 THEN 1 ELSE PagesOf(total))

RetryThenSucceedWitness ==
    /\ recovered = 2 /\ op = "getAll" /\ pc = "done" /\ changes = 0
    /\ returned = <<(<<1, 2, 3, 4, 5>>)>> /\ Len(fetched) = 3

\* C15: when the page consumer of iteratePages calls cancel during the
\* callback for page p, the fetch of page p is the last one whatever total it
\* reported, the flag is acted on as soon as control is back from the
\* callback, and the iteration ends without an error; when no callback calls
\* cancel the iteration does not end before the page bound is reached.
PageCancel ==
    /\ []((op = "iteratePages" /\ firstCancel # <<>> /\ firstCancel[1].live) =>
            /\ Len(fetchStarted) = firstCancel[1].fetches
            /\ Len(pagesDelivered) = firstCancel[1].unit
            /\ Requested = firstCancel[1].unit
            /\ pc \in {"callback", "done"}
            /\ err = <<>>)
    /\ []((op = "iteratePages" /\ pc = "done" /\ firstCancel = <<>>) =>
            /\ ~LoopCond(page, pages)
            /\ page = Len(fetched)
            /\ pages = fetched[Len(fetched)].pages)
    /\ [][(op = "iteratePages" /\ pc = "callback" /\ isCancelled /\ pc' # pc) =>
            (pc' = "done" /\ fetchStarted' = fetchStarted /\ err' = <<>>)]_vars

PageCancelWitness ==
    /\ op = "iteratePages" /\ pc = "done" /\ err = <<>>
    /\ firstCancel # <<>> /\ firstCancel[1].live /\ firstCancel[1].unit = 2
    /\ fetchStarted = <<1, 2>> /\ fetched[2].pages = 3

\* C16: in one iteratePages, iterate or getAll call the pages are requested
\* and handed on in the order 1, 2, 3, ... without a gap or a repetition, the
\* page counter grows by exactly one per loop pass, also when the reported
\* total shrinks or grows between fetches.
ConsecutivePages ==
    /\ [](op \in IterOps =>
            /\ \A k \in 1..Len(fetchStarted) : fetchStarted[k] = k
            /\ \A k \in 1..Len(fetched) : fetched[k].page = k
            /\ \A k \in 1..Len(pagesDelivered) : pagesDelivered[k] = k
            /\ page = Len(fetchStarted)
            /\ Len(fetched) \in {page - 1, page}
            /\ op = "iteratePages" => Len(pagesDelivered) = Len(fetched)
            /\ \A i, j \in 1..Len(delivered) :
                  i < j => PageOfRecord(delivered[i]) <= PageOfRecord(delivered[j]))
    /\ [][(op \in IterOps) =>
            (/\ page' \in {page, page + 1}
             /\ (page' = page + 1) <=> (fetchStarted' = Append(fetchStarted, page + 1)))]_vars

ConsecutivePagesWitness ==
    /\ op = "iteratePages" /\ pc = "done" /\ changes = 1
    /\ pagesDelivered = <<1, 2, 3>>
    /\ fetched[1].pages = 2 /\ fetched[2].pages = 3

\* C17: an iteratePages, iterate or getAll call requests page 1 before
\* anything is handed on, whatever the collection holds; when that fetch
\* reports 0 or 1 pages, one page is fetched, the page consumer is called
\* once with that page's records, and getAll on an empty collection returns
\* the empty list.
AtLeastOneFetch ==
    op \in IterOps =>
        /\ fetchStarted # <<>> /\ fetchStarted[1] = 1
        /\ fetched = <<>> =>
              /\ delivered = <<>> /\ pagesDelivered = <<>> /\ returned = <<>>
              /\ pc \in {"fetching", "failed"}
        /\ (fetched # <<>> /\ fetched[1].pages <= 1) =>
              /\ fetchStarted = <<1>>
              /\ Len(fetched) = 1
              /\ pc \in {"callback", "done"}
              /\ op = "iteratePages" =>
                    /\ pagesDelivered = <<1>>
                    /\ elems = data[1].results
        /\ (op = "getAll" /\ pc = "done" /\ total = 0 /\ changes = 0) =>
              /\ returned = <<(<<>>)>>
              /\ Len(fetched) = 1

AtLeastOneFetchWitness ==
    /\ op = "getAll" /\ pc = "done" /\ total = 0 /\ changes = 0
    /\ fetchStarted = <<1>> /\ fetched = <<[page |-> 1, pages |-> 0]>>
    /\ returned = <<(<<>>)>>

\* C18: getPage leaves the cursor object it is given as it was, whether the
\* call succeeds or fails; the next cursor it returns is another object, so
\* the increment applied to it does not reach the input, and handing the same
\* input cursor to getPage again requests the same page again.
CursorIsValue ==
    /\ [][(op = "getPage" /\ pc = "fetching") => cursorArg' = cursorArg]_vars
    /\ []((op = "getPage" /\ pc = "done") =>
            /\ fetched[Len(fetched)].page = cursorArg[1].page
            /\ pageData[1].next # <<>> =>
                  /\ pageData[1].next[1].page = cursorArg[1].page + 1
                  /\ pageData[1].next[1] # cursorArg[1])
    /\ []((op = "getPage" /\ fedFrom = "again") =>
            /\ pc # "failed" => /\ Len(fetchStarted) >= 2
                                /\ Requested = fetchStarted[Len(fetchStarted) - 1]
            /\ (pc = "done" /\ changes = 0) =>
                  pageData[1].elements = PageRecords(total, Requested))

CursorIsValueWitness ==
    /\ op = "getPage" /\ pc = "done" /\ fedFrom = "again" /\ changes = 0
    /\ fetchStarted = <<1, 1>> /\ total = 5
    /\ cursorArg[1].page = 1 /\ pageData[1].next[1].page = 2
    /\ pageData[1].elements = <<1, 2>>

\* ------------------------------------------- iteratePages with fair steps
\* the steps of an iteratePages call
NextPages ==
    \/ iteratePages
    \/ FetchFails
    \/ \E e \in ErrorFields : FetchRespondsError(e)
    \/ \E e \in ErrorFields : FetchRespondsPage(e)
    \/ ConsumerCancels
    \/ ConsumerSuspends
    \/ ConsumerReturns
    \/ \E u \in pending : PendingCancels(u)
    \/ \E u \in pending : PendingCompletes(u)
    \/ \E t \in 0..MaxTotal : CollectionChanges(t)

\* every request is answered (with a page, an error or a transport failure)
FetchReturns ==
    \/ FetchFails
    \/ \E e \in ErrorFields : FetchRespondsError(e)
    \/ \E e \in ErrorFields : FetchRespondsPage(e)

\* every request is answered and every consumer callback returns
FairSpec ==
    /\ Init /\ [][NextPages]_vars
    /\ WF_vars(FetchReturns)
    /\ WF_vars(ConsumerReturns)

RECURSIVE MaxReported(_)
\* the largest total of pages reported by the first n successful fetches
MaxReported(n) ==
    IF n = 0 THEN 0
    ELSE IF fetched[n].pages > MaxReported(n - 1) THEN fetched[n].pages
         ELSE MaxReported(n - 1)

\* C19: when every fetch and every callback returns and every reported total
\* is at most N, an iteratePages call comes to an end, and it makes at most
\* max(1, N) successful page fetches.
Terminates ==
    /\ (op = "iteratePages") ~> (pc \in {"done", "failed"})
    /\ [](op = "iteratePages" =>
            Len(fetched) <= (IF MaxReported(Len(fetched)) < 1 THEN 1
                             ELSE MaxReported(Len(fetched))))

TerminatesWitness ==
    /\ op = "iteratePages" /\ pc = "done" /\ firstCancel = <<>>
    /\ Len(fetched) = 3 /\ fetched[1].pages = 2 /\ MaxReported(3) = 3

\* ------------------------ getAll and a cursor-driven caller, side by side
\* A getAll call and a caller of getFirstPage / getPage are run against the
\* same answers: the k-th request of each is answered from the same state of
\* the collection, which changes only when both have had k - 1 answers.
singlev == <<impl, callv, srv, loopv, fetchv, cbv, argv, histv, bgv>>

\* answers the cursor-driven caller had
PullGot == IF pullPc = "fetching" THEN Len(pullReqs) - 1 ELSE Len(pullReqs)

\* getFirstPage(springboard, path) for the tenant and path of the getAll call
PullFirst ==
    /\ op = "getAll"
    /\ pullPc = "idle"
    /\ LET c == [page |-> 1, subDomain |-> sb, path |-> path]
       IN  /\ CursorMatches(c, sb)
           /\ pullCursor' = <<c>>
           /\ pullReqs' = <<c.page>>
    /\ pullPc' = "fetching"
    /\ UNCHANGED <<singlev, pulled, twov>>

\* the caller's getPage is answered; it keeps the elements and hands the
\* next cursor, when there is one, to getPage
PullResponds ==
    /\ pullPc = "fetching"
    /\ PullGot < Len(fetched)
    /\ LET d == Response(total, pullCursor[1].page, "undefined")
           r == MakePageData(pullCursor[1], d)
       IN  /\ pulled' = pulled \o r.elements
           /\ IF r.next # <<>> /\ CursorMatches(r.next[1], sb)
              THEN /\ pullCursor' = r.next
                   /\ pullReqs' = Append(pullReqs, r.next[1].page)
                   /\ pullPc' = "fetching"
              ELSE /\ pullPc' = "done"
                   /\ UNCHANGED <<pullCursor, pullReqs>>
    /\ UNCHANGED <<singlev, twov>>

\* the collection changes between two rounds of answers
ChangesBetweenRounds(t) ==
    /\ PullGot = Len(fetched)
    /\ CollectionChanges(t)

NextPullPush ==
    \/ impl = "index" /\ getAll
    \/ PullFirst
    \/ \E e \in {"undefined", ""} : FetchRespondsPage(e)
    \/ ConsumerReturns
    \/ PullResponds
    \/ \E t \in 0..MaxTotal : ChangesBetweenRounds(t)

PullPushSpec == Init /\ [][NextPullPush]_vars

\* C20: against the same answers and without failures, the caller driving
\* getFirstPage and getPage by the next cursors requests the page numbers
\* getAll requests, in the same order, and gets the elements getAll returns,
\* also for an empty collection and for one that changes between fetches.
PullPushEquivalent ==
    /\ \A k \in 1..Min(Len(pullReqs), Len(fetchStarted)) : pullReqs[k] = fetchStarted[k]
    /\ pc = "done" => Len(pullReqs) <= Len(fetchStarted)
    /\ pullPc = "done" => Len(fetchStarted) <= Len(pullReqs)
    /\ (pc = "done" /\ pullPc = "done") =>
          /\ pullReqs = fetchStarted
          /\ returned = <<pulled>>

PullPushEquivalentWitness ==
    /\ pc = "done" /\ pullPc = "done" /\ changes = 1
    /\ pullReqs = <<1, 2, 3>> /\ fetched[1].pages = 2
    /\ returned = <<pulled>> /\ Len(pulled) = 5

\* ------------------------------------------------ two iterations at once
\* The first call runs by the actions above; a second call (B) of
\* iteratePages, iterate or getAll runs beside it with locals of its own, on
\* the same collection or on another one. Requests are answered without
\* failure and no collection changes.

\* B: while (page < pages) { ++page; await getRawPage(...) } or the return
BEnterLoop(b) ==
    IF LoopCond(b.page, b.pages)
    THEN [b EXCEPT !.page = @ + 1, !.pc = "fetching", !.reqs = Append(@, b.page + 1)]
    ELSE [b EXCEPT !.pc = "done"]

\* B: a record is handed to the record consumer
BInvokeRecord(b, es, i) ==
    [b EXCEPT !.pc = "callback", !.elems = es, !.idx = i,
              !.innerCancelled = FALSE, !.isCancelled = FALSE,
              !.units = Append(@, es[i])]

\* B is called; t is the size of its collection
BCall(o, s, p, t) ==
    /\ op # "none"
    /\ callB.pc = "idle"
    /\ (s = sb /\ p = path) => t = total
    /\ callB' = BEnterLoop([IdleCall EXCEPT !.op = o, !.sb = s, !.path = p, !.total = t])
    /\ UNCHANGED <<singlev, pullv>>

\* B's request is answered with a page
BResponds ==
    /\ callB.pc = "fetching"
    /\ LET d == Response(callB.total, callB.page, "undefined")
           b == [callB EXCEPT !.pages = UpdatePages(@, d)]
       IN  callB' =
             IF b.op = "iteratePages"
             THEN [b EXCEPT !.pc = "callback", !.elems = d.results,
                            !.isCancelled = FALSE, !.units = Append(@, b.page)]
             ELSE IF d.results = <<>>
                  THEN BEnterLoop([b EXCEPT !.elems = d.results])
                  ELSE BInvokeRecord(b, d.results, 1)
    /\ UNCHANGED <<singlev, pullv>>

\* B's consumer calls the cancel function it was given
BCancels ==
    /\ callB.pc = "callback"
    /\ callB.op \in {"iteratePages", "iterate"}
    /\ callB.cancelAt = 0
    /\ IF FlagCell("B") = "B"
       THEN /\ callB' = IF callB.op = "iteratePages"
                        THEN [callB EXCEPT !.isCancelled = TRUE, !.cancelAt = Len(callB.units)]
                        ELSE [callB EXCEPT !.innerCancelled = TRUE, !.cancelAt = Len(callB.units)]
            /\ UNCHANGED <<isCancelled, innerCancelled>>
       ELSE /\ callB' = [callB EXCEPT !.cancelAt = Len(callB.units)]
            /\ isCancelled' = IF callB.op = "iteratePages" THEN TRUE ELSE isCancelled
            /\ innerCancelled' = IF callB.op = "iterate" THEN TRUE ELSE innerCancelled
    /\ UNCHANGED <<impl, callv, srv, loopv, fetchv, elems, idx, suspended, delivered,
                   pagesDelivered, compilation, argv, histv, bgv, pullv>>

\* control comes back from B's consumer callback
BReturns ==
    /\ callB.pc = "callback"
    /\ callB' =
         IF callB.op = "iteratePages"
         THEN IF callB.isCancelled THEN [callB EXCEPT !.pc = "done"] ELSE BEnterLoop(callB)
         ELSE IF StopsAfterRecord(callB.innerCancelled)
              THEN [callB EXCEPT !.pc = "done", !.isCancelled = TRUE]
              ELSE IF callB.idx < Len(callB.elems)
                   THEN BInvokeRecord(callB, callB.elems, callB.idx + 1)
                   ELSE BEnterLoop(callB)
    /\ UNCHANGED <<singlev, pullv>>

\* the first call, made on one tenant and path; B's may be the same or others
ACall(o) ==
    /\ impl = "index"
    /\ CallIteration(o, "storeA", "items")

NextTwo ==
    \/ \E o \in IterOps : ACall(o)
    \/ \E e \in {"undefined", ""} : FetchRespondsPage(e)
    \/ ConsumerCancels
    \/ ConsumerSuspends
    \/ ConsumerReturns
    \/ \E o \in IterOps, s \in SubDomains, p \in Paths, t \in 0..MaxTotal : BCall(o, s, p, t)
    \/ BResponds
    \/ BCancels
    \/ BReturns

TwoSpec == Init /\ [][NextTwo]_vars

\* pages an uncancelled iteration over t records requests
PagesVisited(t) == IF PagesOf(t) < 1 THEN 1 ELSE PagesOf(t)

\* C12: two iterations interleaved against unchanged collections each issue
\* the page requests and deliver the records they do when run alone: an
\* iteration nobody cancels visits all of its collection, one cancelled at
\* its k-th unit stops there, whatever the other one does.
NonInterference ==
    /\ op \in IterOps =>
          /\ pc # "failed"
          /\ \A k \in 1..Len(fetchStarted) : fetchStarted[k] = k
          /\ \A k \in 1..Len(pagesDelivered) : pagesDelivered[k] = k
          /\ delivered = SubSeq(ConcatPages(total, PagesOf(total)), 1, Len(delivered))
          /\ (pc = "done" /\ firstCancel = <<>>) =>
                /\ Len(fetchStarted) = PagesVisited(total)
                /\ op = "iteratePages" => Len(pagesDelivered) = PagesVisited(total)
                /\ op # "iteratePages" => Len(delivered) = total
                /\ op = "getAll" => returned = <<ConcatPages(total, PagesOf(total))>>
          /\ firstCancel # <<>> =>
                /\ Invoked = firstCancel[1].unit
                /\ Len(fetchStarted) = firstCancel[1].fetches
    /\ callB.op \in IterOps =>
          /\ \A k \in 1..Len(callB.reqs) : callB.reqs[k] = k
          /\ callB.units =
                IF callB.op = "iteratePages"
                THEN [k \in 1..Len(callB.units) |-> k]
                ELSE SubSeq(ConcatPages(callB.total, PagesOf(callB.total)), 1, Len(callB.units))
          /\ (callB.pc = "done" /\ callB.cancelAt = 0) =>
                /\ Len(callB.reqs) = PagesVisited(callB.total)
                /\ Len(callB.units) = IF callB.op = "iteratePages"
                                      THEN PagesVisited(callB.total) ELSE callB.total
          /\ callB.cancelAt > 0 =>
                /\ Len(callB.units) = callB.cancelAt
                /\ Len(callB.reqs) = IF callB.op = "iteratePages" THEN callB.cancelAt
                                     ELSE PageOfRecord(callB.cancelAt)

NonInterferenceWitness ==
    /\ op = "getAll" /\ pc = "done" /\ returned = <<(<<1, 2, 3, 4, 5>>)>>
    /\ callB.op = "iteratePages" /\ callB.pc = "done" /\ callB.cancelAt = 1
    /\ callB.sb = sb /\ callB.path = path /\ callB.reqs = <<1>>

====
